---- MODULE Spec2Model ----
(***************************************************************************)
(* A model of run() in src/src/index.ts, the build-reporter GitHub Action. *)
(*                                                                         *)
(* One run reads seven inputs, dispatches on `action`, issues at most one  *)
(* HTTP request (postJson or patchJson), and maps the answer to outputs    *)
(* (core.setOutput) or to a failure (core.setFailed) in the single         *)
(* try/catch that wraps the whole body.                                    *)
(*                                                                         *)
(* The collaborators are modelled by their observable calls, as the test   *)
(* suite mocks them: the HTTP client either resolves with                  *)
(* {statusCode, result} (result is the parsed JSON body, or null) or       *)
(* rejects with a thrown value; core.getInput(name, {required: true})      *)
(* throws an Error when the input is empty.  Inputs are taken as           *)
(* core.getInput returns them (already trimmed).                           *)
(***************************************************************************)
EXTENDS Integers, Sequences, FiniteSets, TLC

VARIABLES
    inputs,     \* the host-supplied inputs, by input name
    pc,         \* position of run(): start, switch, awaitPost, awaitPatch, done
    apiUrl,     \* the local apiUrl (line 21)
    branches,   \* the action cases of the switch that were entered, in order
    requests,   \* the HTTP requests issued, in order
    response,   \* what the transport answered: none / resolved / rejected
    outputs,    \* the core.setOutput calls, in order
    thrown,     \* the values that reached the catch clause, in order
    failures    \* the core.setFailed calls (their messages), in order

vars == <<inputs, pc, apiUrl, branches, requests, response, outputs, thrown, failures>>

----------------------------------------------------------------------------
(* Bounds and input domains *)

MaxDeployments == 2

InputNames == {"api-key", "api-url", "service-id", "action", "build-id",
               "environment", "status"}

ApiKeys      == {"", "pk_test_key"}
ApiUrls      == {"", "https://gitlaunch.io"}
ServiceIds   == {"", "service123"}
Actions      == {"", "report-build", "update-status", "invalid-action"}
BuildIds     == {"", "abc123"}
Environments == {"", "staging"}
Statuses     == {"", "deploying", "deployed", "invalid-status"}

StatusCodes  == {200, 201, 204, 401, 404, 500}

DeployEnvs   == {"staging", "production", "preview"}
DeployValues == {"", "deployed"}

----------------------------------------------------------------------------
(* JavaScript values *)

Undefined == [t |-> "undefined"]
Null      == [t |-> "null"]
Str(s)    == [t |-> "string", s |-> s]

\* The truthiness `||` tests: undefined, null and "" are falsy.
Truthy(v) == v.t = "string" /\ v.s # ""

\* A thrown value: an Error carrying a message, or any other value.
Err(msg)   == [isError |-> TRUE, message |-> msg]
NonError(v) == [isError |-> FALSE, message |-> v]

\* The `deployments` object of a body: its entries in key order, keys unique.
RECURSIVE DeploymentSeqs(_)
DeploymentSeqs(n) ==
    IF n = 0 THEN {<<>>}
    ELSE LET shorter == DeploymentSeqs(n - 1)
         IN  shorter \cup
             { Append(d, [key |-> k, value |-> v]) :
                 d \in { x \in shorter : Len(x) = n - 1 },
                 k \in DeployEnvs, v \in DeployValues }

UniqueKeys(d) == \A i, j \in 1..Len(d) : d[i].key = d[j].key => i = j

DeploymentObjects ==
    { [t |-> "object", entries |-> d] :
        d \in { x \in DeploymentSeqs(MaxDeployments) : UniqueKeys(x) } }

HasKey(obj, k) == \E i \in 1..Len(obj.entries) : obj.entries[i].key = k

\* obj[k] of a deployments object: the entry's string, or undefined.
Lookup(obj, k) ==
    IF HasKey(obj, k)
    THEN Str((CHOOSE e \in { obj.entries[i] : i \in 1..Len(obj.entries) } : e.key = k).value)
    ELSE Undefined

\* The parsed response bodies: null (empty or non-JSON body) or an object
\* whose fields buildId, deployments and error may each be absent.
Bodies ==
    {Null} \cup
    { [t |-> "object", buildId |-> b, deployments |-> d, error |-> e] :
        b \in {Undefined, Str("abc123")},
        d \in {Undefined} \cup DeploymentObjects,
        e \in {Undefined, Str(""), Str("Invalid API key")} }

Responses == { [kind |-> "resolved", statusCode |-> c, result |-> r] :
                 c \in StatusCodes, r \in Bodies }

Rejections == { [kind |-> "rejected", value |-> v] :
                  v \in { Err("connect ECONNREFUSED"), Err(""),
                          NonError("timeout") } }

NoResponse == [kind |-> "none"]

----------------------------------------------------------------------------
(* Input Resolver: lines 20-35 *)

\* The inputs read with {required: true}, in the order run() reads them.
RequiredInputs == <<"api-key", "service-id", "action", "build-id">>

\* core.getInput(name, {required: true}) on an empty input throws this.
GetInputError(name) == Err("Input required and not supplied: " \o name)

\* The first required read that throws, as a sequence of at most one error.
RequiredInputThrows(in) ==
    LET missing == { i \in 1..Len(RequiredInputs) : in[RequiredInputs[i]] = "" }
    IN  IF missing = {} THEN <<>>
        ELSE <<GetInputError(RequiredInputs[
                   CHOOSE i \in missing : \A j \in missing : i <= j])>>

\* A variant that forgets the default endpoint.
ResolveApiUrl_NoDefault(u) == u

\* core.getInput("api-url") || "https://gitlaunch.dev"
ResolveApiUrl(u) == IF u = "" THEN "https://gitlaunch.dev" ELSE u

BaseUrl(url, serviceId) == url \o "/api/v1/services/" \o serviceId

----------------------------------------------------------------------------
(* Action Dispatcher and Request Executor: lines 37-43, 62-84, 103-106 *)

\* client.postJson(`${baseUrl}/builds`, { buildId })
PostRequest(base, buildId) ==
    [method |-> "POST",
     url    |-> base \o "/builds",
     body   |-> [buildId |-> buildId]]

\* client.patchJson(`${baseUrl}/builds/${buildId}/deploy/${environment}`, { status })
PatchRequest(base, buildId, environment, status) ==
    [method |-> "PATCH",
     url    |-> base \o "/builds/" \o buildId \o "/deploy/" \o environment,
     body   |-> [status |-> status]]

ValidStatuses == <<"deploying", "deployed", "error", "cancelled">>

\* validStatuses.join(", ")
RECURSIVE Join(_, _)
Join(seq, sep) ==
    IF seq = <<>> THEN ""
    ELSE IF Len(seq) = 1 THEN seq[1]
    ELSE seq[1] \o sep \o Join(Tail(seq), sep)

Includes(seq, x) == \E i \in 1..Len(seq) : seq[i] = x

\* A variant that omits the enumeration check.
UpdateStatusValidation_NoEnum(environment, status) ==
    IF environment = ""
    THEN <<Err("environment is required for update-status action")>>
    ELSE IF status = ""
    THEN <<Err("status is required for update-status action")>>
    ELSE <<>>

\* A variant that checks status before environment.
UpdateStatusValidation_StatusFirst(environment, status) ==
    IF status = ""
    THEN <<Err("status is required for update-status action")>>
    ELSE IF environment = ""
    THEN <<Err("environment is required for update-status action")>>
    ELSE IF ~Includes(ValidStatuses, status)
    THEN <<Err("Invalid status: " \o status \o ". Must be one of: "
               \o Join(ValidStatuses, ", "))>>
    ELSE <<>>

\* The three checks of the update-status case, in order; the error thrown by
\* the first that fails, as a sequence of at most one error.
UpdateStatusValidation(environment, status) ==
    IF environment = ""
    THEN <<Err("environment is required for update-status action")>>
    ELSE IF status = ""
    THEN <<Err("status is required for update-status action")>>
    ELSE IF ~Includes(ValidStatuses, status)
    THEN <<Err("Invalid status: " \o status \o ". Must be one of: "
               \o Join(ValidStatuses, ", "))>>
    ELSE <<>>

\* A variant whose message does not name the action.
InvalidActionError_Generic(action) == Err("Invalid action")

\* The default case of the switch.
InvalidActionError(action) ==
    Err("Invalid action: " \o action
        \o ". Must be 'report-build' or 'update-status'")

----------------------------------------------------------------------------
(* Response Mapper: lines 45-58, 86-99 *)

\* response.statusCode === 201 || response.statusCode === 200
ReportBuildOk(statusCode) == statusCode = 201 \/ statusCode = 200

\* response.statusCode === 200
UpdateStatusOk(statusCode) == statusCode = 200

\* A variant that uses an empty error field instead of falling back.
ErrorMessage_NoFallback(result, statusCode) ==
    IF result.t = "object" /\ result.error.t = "string"
    THEN result.error.s
    ELSE "Failed with status " \o ToString(statusCode)

\* error?.error || `Failed with status ${response.statusCode}`
ErrorMessage(result, statusCode) ==
    IF result.t = "object" /\ Truthy(result.error)
    THEN result.error.s
    ELSE "Failed with status " \o ToString(statusCode)

\* The TypeError of reading property `prop` of null or undefined.
TypeErrorReading(v, prop) ==
    Err("Cannot read properties of " \o v.t \o " (reading '" \o prop \o "')")

\* JSON.stringify of a deployments object; of undefined it is undefined.
RECURSIVE StringifyEntries(_)
StringifyEntries(entries) ==
    IF entries = <<>> THEN ""
    ELSE "\"" \o entries[1].key \o "\":\"" \o entries[1].value \o "\""
         \o (IF Len(entries) = 1 THEN "" ELSE "," \o StringifyEntries(Tail(entries)))

JSONStringify(v) ==
    IF v.t = "undefined" THEN Undefined
    ELSE Str("{" \o StringifyEntries(v.entries) \o "}")

Output(name, value) == [name |-> name, value |-> value]

\* Lines 46-52: the setOutput calls made and the error thrown, if any.
ReportBuildSuccess(result) ==
    IF result.t = "null"
    THEN [outs |-> <<>>, errs |-> <<TypeErrorReading(result, "buildId")>>]
    ELSE [outs |-> <<Output("build-id", result.buildId),
                     Output("deployment-status", JSONStringify(result.deployments))>>,
          errs |-> <<>>]

\* A variant that ignores the deployments mapping.
DeploymentStatusValue_Sent(deployments, environment, status) == Str(status)

\* result.deployments[environment] || status
DeploymentStatusValue(deployments, environment, status) ==
    IF Truthy(Lookup(deployments, environment))
    THEN Lookup(deployments, environment)
    ELSE Str(status)

\* Lines 87-93: the setOutput calls made and the error thrown, if any.
UpdateStatusSuccess(result, environment, status) ==
    IF result.t = "null"
    THEN [outs |-> <<>>, errs |-> <<TypeErrorReading(result, "buildId")>>]
    ELSE IF result.deployments.t = "undefined"
    THEN [outs |-> <<Output("build-id", result.buildId)>>,
          errs |-> <<TypeErrorReading(result.deployments, environment)>>]
    ELSE [outs |-> <<Output("build-id", result.buildId),
                     Output("deployment-status",
                            DeploymentStatusValue(result.deployments, environment, status))>>,
          errs |-> <<>>]

----------------------------------------------------------------------------
(* The top-level boundary: lines 108-114 *)

\* A variant that reports a non-Error value as if it were an Error.
CatchMessage_Raw(e) == e.message

\* error instanceof Error ? error.message : "An unexpected error occurred"
CatchMessage(e) ==
    IF e.isError THEN e.message ELSE "An unexpected error occurred"

----------------------------------------------------------------------------
(* The run *)

Init ==
    /\ inputs \in { [n \in InputNames |->
                       CASE n = "api-key"     -> k
                         [] n = "api-url"     -> u
                         [] n = "service-id"  -> s
                         [] n = "action"      -> a
                         [] n = "build-id"    -> b
                         [] n = "environment" -> e
                         [] n = "status"      -> st] :
                    k \in ApiKeys, u \in ApiUrls, s \in ServiceIds, a \in Actions,
                    b \in BuildIds, e \in Environments, st \in Statuses }
    /\ pc = "start"
    /\ apiUrl = ""
    /\ branches = <<>>
    /\ requests = <<>>
    /\ response = NoResponse
    /\ outputs = <<>>
    /\ thrown = <<>>
    /\ failures = <<>>

\* The catch clause: every thrown value ends the run with one setFailed.
Catch(e) ==
    /\ thrown' = Append(thrown, e)
    /\ failures' = Append(failures, CatchMessage(e))
    /\ pc' = "done"

\* The end of a step that made the setOutput calls `outs` and then threw
\* `errs` (at most one error), or fell through to the end of run().
Finish(outs, errs) ==
    /\ outputs' = outputs \o outs
    /\ IF errs = <<>>
       THEN /\ pc' = "done"
            /\ UNCHANGED <<thrown, failures>>
       ELSE Catch(errs[1])

\* Lines 20-35.
ResolveInputs ==
    /\ pc = "start"
    /\ apiUrl' = IF inputs["api-key"] = "" THEN apiUrl
                 ELSE ResolveApiUrl(inputs["api-url"])
    /\ LET errs == RequiredInputThrows(inputs)
       IN  IF errs = <<>>
           THEN /\ pc' = "switch"
                /\ UNCHANGED <<thrown, failures>>
           ELSE Catch(errs[1])
    /\ UNCHANGED <<inputs, branches, requests, response, outputs>>

\* Lines 38-43: case "report-build", up to the await.
ReportBuild ==
    /\ pc = "switch"
    /\ inputs["action"] = "report-build"
    /\ branches' = Append(branches, "report-build")
    /\ requests' = Append(requests,
           PostRequest(BaseUrl(apiUrl, inputs["service-id"]), inputs["build-id"]))
    /\ pc' = "awaitPost"
    /\ UNCHANGED <<inputs, apiUrl, response, outputs, thrown, failures>>

\* Lines 62-84: case "update-status", up to the await.
UpdateStatus ==
    /\ pc = "switch"
    /\ inputs["action"] = "update-status"
    /\ branches' = Append(branches, "update-status")
    /\ LET errs == UpdateStatusValidation(inputs["environment"], inputs["status"])
       IN  IF errs = <<>>
           THEN /\ requests' = Append(requests,
                       PatchRequest(BaseUrl(apiUrl, inputs["service-id"]),
                                    inputs["build-id"], inputs["environment"],
                                    inputs["status"]))
                /\ pc' = "awaitPatch"
                /\ UNCHANGED <<thrown, failures>>
           ELSE /\ Catch(errs[1])
                /\ UNCHANGED requests
    /\ UNCHANGED <<inputs, apiUrl, response, outputs>>

\* Lines 103-106: the default case.
InvalidAction ==
    /\ pc = "switch"
    /\ inputs["action"] \notin {"report-build", "update-status"}
    /\ Catch(InvalidActionError(inputs["action"]))
    /\ UNCHANGED <<inputs, apiUrl, branches, requests, response, outputs>>

\* A variant that re-issues the request once on a non-success response.
PostJsonResolves_Retry ==
    /\ pc = "awaitPost"
    /\ \E r \in Responses :
         /\ response' = r
         /\ IF ReportBuildOk(r.statusCode)
            THEN /\ Finish(ReportBuildSuccess(r.result).outs,
                           ReportBuildSuccess(r.result).errs)
                 /\ UNCHANGED requests
            ELSE IF Len(requests) < 2
            THEN /\ requests' = Append(requests, requests[1])
                 /\ UNCHANGED <<pc, outputs, thrown, failures>>
            ELSE /\ Finish(<<>>, <<Err(ErrorMessage(r.result, r.statusCode))>>)
                 /\ UNCHANGED requests
    /\ UNCHANGED <<inputs, apiUrl, branches>>

\* Lines 40, 45-59: postJson resolves and the response is mapped.
PostJsonResolves ==
    /\ pc = "awaitPost"
    /\ \E r \in Responses :
         /\ response' = r
         /\ IF ReportBuildOk(r.statusCode)
            THEN Finish(ReportBuildSuccess(r.result).outs,
                        ReportBuildSuccess(r.result).errs)
            ELSE Finish(<<>>, <<Err(ErrorMessage(r.result, r.statusCode))>>)
    /\ UNCHANGED <<inputs, apiUrl, branches, requests>>

\* Lines 81, 86-100: patchJson resolves and the response is mapped.
PatchJsonResolves ==
    /\ pc = "awaitPatch"
    /\ \E r \in Responses :
         /\ response' = r
         /\ IF UpdateStatusOk(r.statusCode)
            THEN LET m == UpdateStatusSuccess(r.result, inputs["environment"],
                                              inputs["status"])
                 IN  Finish(m.outs, m.errs)
            ELSE Finish(<<>>, <<Err(ErrorMessage(r.result, r.statusCode))>>)
    /\ UNCHANGED <<inputs, apiUrl, branches, requests>>

\* Lines 40/81, 108-114: the awaited call rejects (a transport failure).
TransportRejects ==
    /\ pc \in {"awaitPost", "awaitPatch"}
    /\ \E r \in Rejections :
         /\ response' = r
         /\ Catch(r.value)
    /\ UNCHANGED <<inputs, apiUrl, branches, requests, outputs>>

Next ==
    \/ ResolveInputs
    \/ ReportBuild
    \/ UpdateStatus
    \/ InvalidAction
    \/ PostJsonResolves
    \/ PatchJsonResolves
    \/ TransportRejects

Spec == Init /\ [][Next]_vars

\* run() is one task: each synchronous stretch runs once it can, and the
\* transport is taken to answer or reject eventually.
FairSpec == Spec /\ WF_vars(Next)

----------------------------------------------------------------------------
(* Vocabulary of the properties *)

Done == pc = "done"

Action == inputs["action"]

RequiredPresent ==
    /\ inputs["api-key"] # ""
    /\ inputs["service-id"] # ""
    /\ inputs["action"] # ""
    /\ inputs["build-id"] # ""

StatusEnum == {"deploying", "deployed", "error", "cancelled"}

\* A configuration error: a required input is empty, or the update-status
\* inputs are incomplete or out of the enumeration.
ConfigError ==
    \/ ~RequiredPresent
    \/ /\ Action = "update-status"
       /\ \/ inputs["environment"] = ""
          \/ inputs["status"] = ""
          \/ inputs["status"] \notin StatusEnum

ValidConfig ==
    /\ RequiredPresent
    /\ Action \in {"report-build", "update-status"}
    /\ ~ConfigError

Resolved == response.kind = "resolved"

BothOutputsSet ==
    /\ Len(outputs) = 2
    /\ outputs[1].name = "build-id"
    /\ outputs[2].name = "deployment-status"

Succeed == Done /\ failures = <<>> /\ BothOutputsSet

Fail == Done /\ Len(failures) = 1

\* The status codes each action treats as success.
SuccessCode ==
    /\ Resolved
    /\ \/ Action = "report-build" /\ response.statusCode \in {200, 201}
       \/ Action = "update-status" /\ response.statusCode = 200

ExpectedApiUrl ==
    IF inputs["api-url"] = "" THEN "https://gitlaunch.dev" ELSE inputs["api-url"]

----------------------------------------------------------------------------
(* C1: in a run whose configuration has a configuration error, no HTTP      *)
(* request is ever issued, no response is ever awaited, and the run ends   *)
(* with setFailed called and no output set.                                *)
C1_ConfigErrorFailsWithoutRequest ==
    ConfigError =>
        /\ requests = <<>>
        /\ response = NoResponse
        /\ pc \in {"start", "switch", "done"}
        /\ Done => Len(failures) = 1 /\ outputs = <<>>

C1_Witness ==
    /\ Done
    /\ RequiredPresent
    /\ Action = "update-status"
    /\ inputs["environment"] # ""
    /\ inputs["status"] = "invalid-status"
    /\ Len(failures) = 1
    /\ requests = <<>>

(* C2: a run that got a response ends in success (both outputs emitted, no  *)
(* failure signalled) if and only if the status code is 200 or 201 for     *)
(* report-build, exactly 200 for update-status; otherwise it ends in a     *)
(* signalled failure.                                                      *)
C2_SuccessIffSuccessCode ==
    (Done /\ Resolved) =>
        /\ Succeed <=> SuccessCode
        /\ ~SuccessCode => Fail

(* C3: no partial success: a finished run either set both outputs and      *)
(* never called setFailed, or called setFailed and set no output at all.   *)
C3_NoPartialSuccess ==
    Done =>
        \/ BothOutputsSet /\ failures = <<>>
        \/ failures # <<>> /\ outputs = <<>>

(* C4 as stated: for every value of action outside {report-build,           *)
(* update-status} the run fails with exactly the "Invalid action" message  *)
(* and issues no request.                                                  *)
C4_Original ==
    (Done /\ Action \notin {"report-build", "update-status"}) =>
        /\ failures = <<"Invalid action: " \o Action
                        \o ". Must be 'report-build' or 'update-status'">>
        /\ requests = <<>>

(* C4 amended: for every value of action outside {report-build,             *)
(* update-status} the run fails once and issues no request; the message is *)
(* exactly the "Invalid action" message when api-key, service-id, action   *)
(* and build-id are all non-empty.                                         *)
C4_InvalidActionFails ==
    Action \notin {"report-build", "update-status"} =>
        /\ requests = <<>>
        /\ Done => Len(failures) = 1
        /\ (Done /\ RequiredPresent) =>
               failures = <<"Invalid action: " \o Action
                            \o ". Must be 'report-build' or 'update-status'">>

C4_Witness ==
    /\ Done
    /\ RequiredPresent
    /\ Action = "invalid-action"
    /\ failures = <<"Invalid action: invalid-action. Must be 'report-build' or 'update-status'">>

(* C5: for update-status with the required inputs present, the first        *)
(* violated rule, in the order environment, status, status enumeration,    *)
(* gives the single failure message; with none violated the request is     *)
(* issued and no failure is signalled before the transport has answered.   *)
C5_ValidationOrder ==
    (RequiredPresent /\ Action = "update-status" /\ pc \notin {"start", "switch"}) =>
        IF inputs["environment"] = ""
        THEN /\ Done
             /\ failures = <<"environment is required for update-status action">>
        ELSE IF inputs["status"] = ""
        THEN /\ Done
             /\ failures = <<"status is required for update-status action">>
        ELSE IF inputs["status"] \notin StatusEnum
        THEN /\ Done
             /\ failures = <<"Invalid status: " \o inputs["status"]
                  \o ". Must be one of: deploying, deployed, error, cancelled">>
        ELSE /\ Len(requests) = 1
             /\ failures # <<>> => response # NoResponse

C5_Witness ==
    /\ Done
    /\ RequiredPresent
    /\ Action = "update-status"
    /\ inputs["environment"] = ""
    /\ inputs["status"] = ""
    /\ failures = <<"environment is required for update-status action">>

(* C6: for either action and every non-success status code, the single      *)
(* setFailed message is the body's error field when it is present and      *)
(* non-empty, and otherwise "Failed with status {statusCode}", also for a  *)
(* null body or a body without an error field.                             *)
C6_FailureMessage ==
    (Done /\ Resolved /\ ~SuccessCode) =>
        failures =
          << IF /\ response.result # Null
                /\ response.result.error # Undefined
                /\ response.result.error # Str("")
             THEN response.result.error.s
             ELSE "Failed with status " \o ToString(response.statusCode) >>

C6_Witness ==
    /\ Done
    /\ Action = "update-status"
    /\ Resolved
    /\ response.statusCode = 201
    /\ response.result = Null
    /\ failures = <<"Failed with status 201">>

(* C7 as stated: after a successful update-status run, build-id is          *)
(* body.buildId and deployment-status is body.deployments[environment]     *)
(* whenever the mapping has an entry for the environment, whatever string  *)
(* it holds, and the status sent only when it has no entry.                *)
C7_Original ==
    (Done /\ Action = "update-status" /\ Resolved /\ failures = <<>>) =>
        outputs =
          << Output("build-id", response.result.buildId),
             Output("deployment-status",
                    IF HasKey(response.result.deployments, inputs["environment"])
                    THEN Lookup(response.result.deployments, inputs["environment"])
                    ELSE Str(inputs["status"])) >>

(* C7 amended: after a successful update-status run, build-id is           *)
(* body.buildId and deployment-status is body.deployments[environment]     *)
(* whenever the mapping has a non-empty entry for the environment, and the *)
(* status sent when it has no entry or the entry is the empty string.      *)
C7_DeploymentStatusOutput ==
    (Done /\ Action = "update-status" /\ Resolved /\ failures = <<>>) =>
        /\ response.statusCode = 200
        /\ outputs =
             << Output("build-id", response.result.buildId),
                Output("deployment-status",
                       IF /\ HasKey(response.result.deployments, inputs["environment"])
                          /\ Lookup(response.result.deployments, inputs["environment"]) # Str("")
                       THEN Lookup(response.result.deployments, inputs["environment"])
                       ELSE Str(inputs["status"])) >>

C7_Witness ==
    /\ Done
    /\ Action = "update-status"
    /\ Resolved
    /\ failures = <<>>
    /\ inputs["status"] = "deploying"
    /\ HasKey(response.result.deployments, inputs["environment"])
    /\ outputs[2] = Output("deployment-status", Str("deployed"))

(* C8: for every valid configuration exactly one request is issued and it   *)
(* is the selected action's: report-build POSTs {buildId} to               *)
(* {apiUrl}/api/v1/services/{serviceId}/builds, update-status PATCHes      *)
(* {status} to .../builds/{buildId}/deploy/{environment}; apiUrl is the    *)
(* api-url input, or https://gitlaunch.dev when that is empty.             *)
C8_RequestMatchesAction ==
    /\ (ValidConfig /\ pc \notin {"start", "switch"}) => Len(requests) = 1
    /\ requests # <<>> =>
         /\ ValidConfig
         /\ Action = "report-build" =>
              requests =
                << [method |-> "POST",
                    url    |-> ExpectedApiUrl \o "/api/v1/services/"
                               \o inputs["service-id"] \o "/builds",
                    body   |-> [buildId |-> inputs["build-id"]]] >>
         /\ Action = "update-status" =>
              requests =
                << [method |-> "PATCH",
                    url    |-> ExpectedApiUrl \o "/api/v1/services/"
                               \o inputs["service-id"] \o "/builds/"
                               \o inputs["build-id"] \o "/deploy/"
                               \o inputs["environment"],
                    body   |-> [status |-> inputs["status"]]] >>

C8_Witness ==
    /\ inputs["api-url"] = ""
    /\ Action = "update-status"
    /\ requests =
         << [method |-> "PATCH",
             url    |-> "https://gitlaunch.dev/api/v1/services/service123/builds/abc123/deploy/staging",
             body   |-> [status |-> "deployed"]] >>

(* C9 as stated: in every run at most one request is issued and exactly    *)
(* one of the report-build and update-status branches executes.            *)
C9_Original ==
    /\ Len(requests) <= 1
    /\ Done => Len(branches) = 1

(* C9 amended: in every run at most one request is issued and at most one  *)
(* of the report-build and update-status branches executes: exactly one    *)
(* (the selected one) when the required inputs are non-empty and action is *)
(* one of the two, none otherwise; once a response or a transport error    *)
(* has been received no further request is issued.                         *)
C9_AtMostOneRequestAndBranch ==
    /\ [](/\ Len(requests) <= 1
          /\ Len(branches) <= 1
          /\ Done =>
               branches = IF /\ RequiredPresent
                             /\ Action \in {"report-build", "update-status"}
                          THEN <<Action>> ELSE <<>>)
    /\ [][response # NoResponse => requests' = requests]_vars

C9_Witness ==
    /\ Done
    /\ response.kind = "rejected"
    /\ Len(requests) = 1
    /\ branches = <<"report-build">>

(* C10: every run terminates, in exactly one of Succeed (both outputs set, *)
(* setFailed never called) or Fail (setFailed called exactly once); every  *)
(* thrown value, transport failures included, reaches the one catch; the   *)
(* message is the thrown Error's message, or "An unexpected error          *)
(* occurred" for a non-Error value; and no step returns to an earlier one. *)
PcRank(p) ==
    CASE p = "start"      -> 0
      [] p = "switch"     -> 1
      [] p = "awaitPost"  -> 2
      [] p = "awaitPatch" -> 2
      [] p = "done"       -> 3

C10_TerminatesInSucceedOrFail ==
    /\ <>Done
    /\ [](/\ Len(thrown) <= 1
          /\ Len(failures) = Len(thrown)
          /\ thrown # <<>> =>
               /\ Done
               /\ failures[1] = IF thrown[1].isError THEN thrown[1].message
                                ELSE "An unexpected error occurred"
          /\ response.kind = "rejected" => thrown = <<response.value>>
          /\ Done => (Succeed \/ Fail) /\ ~(Succeed /\ Fail))
    /\ [][PcRank(pc') > PcRank(pc)]_vars

C10_Witness ==
    /\ Done
    /\ response.kind = "rejected"
    /\ ~response.value.isError
    /\ failures = <<"An unexpected error occurred">>
    /\ outputs = <<>>

====
